---- MODULE Spec2Model ----
(***************************************************************************)
(* Model of src/app.py: the NeuralDigest batch job.  One invocation of     *)
(* lambda_handler parses its event, builds the digest (news_by_topic and   *)
(* summarize_article per topic), renders it (write_html), puts the HTML    *)
(* object and then reads, modifies and writes articles.json.               *)
(*                                                                         *)
(* A process is one Python process (a Lambda container): the module-level  *)
(* names DATE and config live as long as the process and are shared by     *)
(* the invocations it serves.  The object store is shared by all.          *)
(***************************************************************************)
EXTENDS Integers, Sequences, FiniteSets, TLC

\* ------------------------------------------------------------------ bounds
MaxRepo     == 2   \* articles the repository holds for the run date (SpecDigest)
MaxRuns     == 2   \* invocations served by one warm process (Spec)
MaxLimit    == 102 \* largest configured ARTICLE_LIMIT tried (SpecFetch)
MaxUpstream == 201 \* largest number of matching upstream articles (SpecFetch)

\* ------------------------------------------------------- program constants
PAGE_SIZE             == 100   \* REQ_LIMIT = 100
DEFAULT_ARTICLE_LIMIT == 3     \* ARTICLE_LIMIT = 3

topics == <<"business", "entertainment", "nation", "science", "technology", "world">>
TopicIdx == 1..Len(topics)

configVars == {"WEAVIATE_URL", "WEAVIATE_API_KEY", "OPENAI_API_KEY"}
EventKeys  == configVars \cup {"S3_BUCKET_NAME"}

\* ------------------------------------------------------------ input domains
Procs  == {"c1", "c2"}
Dates  == {"2023-07-01", "2023-07-02"}
Titles == {"foo.json", "bar"}
NoText == "<no text key>"           \* the record has no "text" key (or None)
Texts  == {NoText, "", "body"}

Min(a, b) == IF a < b THEN a ELSE b

\* The i-th article the repository holds for a topic: its url is its identity.
Art(title, text, i) == [title |-> title, text |-> text, url |-> ToString(i)]

\* Every list of at most n articles.
RECURSIVE ArticleLists(_)
ArticleLists(n) ==
    IF n = 0 THEN {<<>>}
    ELSE LET shorter == ArticleLists(n - 1)
         IN  shorter \cup
             { Append(s, Art(t, x, n)) : s \in {r \in shorter : Len(r) = n - 1},
                                         t \in Titles, x \in Texts }

\* Every repository (one list per topic, in the order of topics) that holds at
\* most b articles in its first n topics.
RECURSIVE Repos(_, _)
Repos(n, b) ==
    IF n = 0 THEN {<<>>}
    ELSE UNION { { Append(r, s) : r \in Repos(n - 1, b - Len(s)) } : s \in ArticleLists(b) }

\* n identical-looking articles, as a volume test feeds them.
Volume(n) == [i \in 1..n |-> Art("bar", "body", i)]

\* ------------------------------------------------------- external services
\* Weaviate's answer to .with_limit(limit).with_offset(offset): the rows
\* offset+1 .. offset+limit of the matching articles.
Page(matching, off, limit) ==
    SubSeq(matching, off + 1, Min(off + limit, Len(matching)))

\* The completion backend: a summary is not the text it summarises.
summarize_article(text) == IF text = "body" THEN "summary of body" ELSE "summary"

\* --------------------------------------------------------- pure helpers
\* REQ_LIMIT = 100; if ARTICLE_LIMIT < REQ_LIMIT: REQ_LIMIT = ARTICLE_LIMIT
ReqLimit(limit) == IF limit < PAGE_SIZE THEN limit ELSE PAGE_SIZE

\* if len(result) < REQ_LIMIT or len(results) >= ARTICLE_LIMIT: break
BreakBad(result, results, req, limit) == Len(result) < req
Break(result, results, req, limit) == Len(result) < req \/ Len(results) >= limit

\* offset += REQ_LIMIT
NextOffset(off, req) == off + req

\* "text" not in article or not article["text"]
HasNoTextBad(article) == article.text = NoText
HasNoText(article) == article.text = NoText \/ article.text = ""

\* A dict is kept as the list of its values in insertion order.
DictTitles(d) == { d[i].title : i \in 1..Len(d) }

\* article["title"] in summarized_articles[topic]
AlreadyInBad(title, d) == FALSE
AlreadyIn(title, d) == title \in DictTitles(d)

\* summarized_articles[topic][article["title"]] = article
DictSet(d, article) ==
    IF \E i \in 1..Len(d) : d[i].title = article.title
    THEN [i \in 1..Len(d) |-> IF d[i].title = article.title THEN article ELSE d[i]]
    ELSE Append(d, article)

\* defaultdict(dict): summarized_articles as a function on the keys it holds;
\* reading an absent key yields (and stores) an empty dict.
DefaultGet(sa, t) == IF t \in DOMAIN sa THEN sa[t] ELSE <<>>
DefaultPut(sa, t, d) == [k \in (DOMAIN sa) \cup {t} |-> IF k = t THEN d ELSE sa[k]]

\* str.capitalize() and str.replace('.json', '') on the strings of the model.
Capitalize(topic) ==
    CASE topic = "business"      -> "Business"
      [] topic = "entertainment" -> "Entertainment"
      [] topic = "nation"        -> "Nation"
      [] topic = "science"       -> "Science"
      [] topic = "technology"    -> "Technology"
      [] topic = "world"         -> "World"
StripJson(title) == IF title = "foo.json" THEN "foo" ELSE title

\* if DATE not in articles: articles.insert(0, DATE)
IndexUpdateBad(arts, date) == <<date>> \o arts
IndexUpdateBack(arts, date) ==
    IF \E i \in 1..Len(arts) : arts[i] = date THEN arts ELSE Append(arts, date)
IndexUpdate(arts, date) ==
    IF \E i \in 1..Len(arts) : arts[i] = date THEN arts ELSE <<date>> \o arts

\* ------------------------------------------------------------- rendering
\* The document is the list of its elements; text is the list of its parts.
El(tag, text) == [tag |-> tag, text |-> text]

write_summ_article(article, html) ==
    html \o << El("h3", <<StripJson(article.title)>>),
               El("p", <<article.text>>),
               El("a", <<article.url, " source ">>) >>

RECURSIVE WriteArticles(_, _, _)
WriteArticles(d, i, html) ==
    IF i > Len(d) THEN html
    ELSE WriteArticles(d, i + 1, write_summ_article(d[i], html))

write_sectionBad(d, topic) ==
    IF Len(d) = 0 THEN <<>>
    ELSE WriteArticles(d, 1, << El("h1", <<Capitalize(topic)>>), El("hr", <<>>) >>)
           \o << El("nl", <<>>) >>
write_section(d, topic) ==
    WriteArticles(d, 1, << El("h1", <<Capitalize(topic)>>), El("hr", <<>>) >>)
      \o << El("nl", <<>>) >>

HtmlHead(date) ==
    << El("doctype", <<>>),
       El("title", <<"NeuralDigest Summary: ", date>>),
       El("h1", <<" Summary for News Articles: ", date, " ">>),
       El("hr", <<>>),
       El("body", <<>>) >>

RECURSIVE WriteSections(_, _, _)
WriteSections(sa, i, html) ==
    IF i > Len(topics) THEN html
    ELSE WriteSections(sa, i + 1, html \o write_section(DefaultGet(sa, topics[i]), topics[i]))

RenderHtml(sa, date) == WriteSections(sa, 1, HtmlHead(date)) \o << El("/html", <<>>) >>

\* ------------------------------------------------------------------ state
VARIABLES
    ARTICLE_LIMIT,        \* the module constant ARTICLE_LIMIT, as configured
    repo,                 \* repo[i]: the articles matching topics[i] and DATE
    s3_html,              \* the objects articles/{date}.html, by date
    s3_index,             \* the object articles.json
    index0,               \* articles.json as it was before the first invocation
    pc,                   \* where each process is in lambda_handler
    runsLeft,             \* invocations each process will still serve
    DATE,                 \* the module constant DATE of each process
    config,               \* the module-level dict config: the keys it holds
    event,                \* the keys of the event being handled
    warned,               \* configVars reported by "Missing event variable"
    caught,               \* what the except clause of lambda_handler caught
    error,                \* the exception that ended the invocation
    topic,                \* index in topics of the loop of get_summarized_articles
    REQ_LIMIT, offset, results,      \* locals of news_by_topic
    articles, art,        \* the fetched articles and the index of the next one
    summarized_articles,  \* the digest
    article_html,         \* what write_html returned
    content, modified     \* articles.json as read, and as about to be written

vars == << ARTICLE_LIMIT, repo, s3_html, s3_index, index0, pc, runsLeft, DATE, config,
           event, warned, caught, error, topic, REQ_LIMIT, offset, results,
           articles, art, summarized_articles, article_html, content, modified >>

EmptyDict == [k \in {} |-> <<>>]
NoObject  == [exists |-> FALSE, body |-> <<>>]
Object(b) == [exists |-> TRUE, body |-> b]

\* The articles.json a bucket can hold: none, or a list of dates without
\* duplicates.
IndexStores ==
    {NoObject, Object(<<>>)}
      \cup { Object(<<d>>) : d \in Dates }
      \cup { Object(<<de[1], de[2]>>) : de \in {x \in Dates \X Dates : x[1] # x[2]} }

\* The state of a process between invocations, and its locals at entry.
InitLocals ==
    /\ warned = [p \in Procs |-> {}]
    /\ caught = [p \in Procs |-> "none"]
    /\ error = [p \in Procs |-> "none"]
    /\ topic = [p \in Procs |-> 1]
    /\ REQ_LIMIT = [p \in Procs |-> 0]
    /\ offset = [p \in Procs |-> 0]
    /\ results = [p \in Procs |-> <<>>]
    /\ articles = [p \in Procs |-> <<>>]
    /\ art = [p \in Procs |-> 1]
    /\ summarized_articles = [p \in Procs |-> EmptyDict]
    /\ article_html = [p \in Procs |-> <<>>]
    /\ content = [p \in Procs |-> <<>>]
    /\ modified = [p \in Procs |-> <<>>]
    /\ s3_html = [d \in {} |-> <<>>]

InitProcs ==
    /\ InitLocals
    /\ pc = [p \in Procs |-> "idle"]
    /\ config = [p \in Procs |-> {}]
    /\ event = [p \in Procs |-> {}]

\* A repository whose only articles are those of arts, under the first topic.
OneTopic(arts) == [i \in 1..Len(topics) |-> IF i = 1 THEN arts ELSE <<>>]

\* One warm process serving up to MaxRuns invocations; a repository that
\* holds at most one article.
Init ==
    /\ InitProcs
    /\ ARTICLE_LIMIT = DEFAULT_ARTICLE_LIMIT
    /\ repo \in { OneTopic(a) : a \in ArticleLists(1) }
    /\ s3_index \in IndexStores
    /\ index0 = s3_index
    /\ DATE = [p \in Procs |-> "2023-07-01"]
    /\ runsLeft = [p \in Procs |-> IF p = "c1" THEN MaxRuns ELSE 0]

\* One invocation over every repository of at most MaxRepo articles.
InitDigest ==
    /\ InitProcs
    /\ ARTICLE_LIMIT = DEFAULT_ARTICLE_LIMIT
    /\ repo \in Repos(Len(topics), MaxRepo)
    /\ s3_index = Object(<<>>)
    /\ index0 = s3_index
    /\ DATE = [p \in Procs |-> "2023-07-01"]
    /\ runsLeft = [p \in Procs |-> IF p = "c1" THEN 1 ELSE 0]

\* Two processes, one invocation each, on the same bucket; their run dates
\* are equal or differ.
InitRace ==
    /\ InitProcs
    /\ ARTICLE_LIMIT = DEFAULT_ARTICLE_LIMIT
    /\ repo \in { OneTopic(<<>>), OneTopic(<<Art("bar", "body", 1)>>) }
    /\ s3_index \in IndexStores
    /\ index0 = s3_index
    /\ DATE \in { f \in [Procs -> Dates] : f["c1"] = "2023-07-01" }
    /\ runsLeft = [p \in Procs |-> 1]

\* news_by_topic alone, called for the first topic with the configuration in
\* place, for every ARTICLE_LIMIT and every number of matching articles.
InitFetch ==
    /\ InitLocals
    /\ pc = [p \in Procs |-> IF p = "c1" THEN "topics" ELSE "idle"]
    /\ config = [p \in Procs |-> IF p = "c1" THEN configVars ELSE {}]
    /\ event = [p \in Procs |-> IF p = "c1" THEN EventKeys ELSE {}]
    /\ ARTICLE_LIMIT \in 0..MaxLimit
    /\ repo \in { OneTopic(Volume(n)) : n \in 0..MaxUpstream }
    /\ s3_index = Object(<<>>)
    /\ index0 = s3_index
    /\ DATE = [p \in Procs |-> "2023-07-01"]
    /\ runsLeft = [p \in Procs |-> 0]

\* ---------------------------------------------------------------- actions
\* The locals of the digest build go out of scope.
DropLocals(p) ==
    /\ topic' = [topic EXCEPT ![p] = 1]
    /\ REQ_LIMIT' = [REQ_LIMIT EXCEPT ![p] = 0]
    /\ offset' = [offset EXCEPT ![p] = 0]
    /\ results' = [results EXCEPT ![p] = <<>>]
    /\ articles' = [articles EXCEPT ![p] = <<>>]
    /\ art' = [art EXCEPT ![p] = 1]
    /\ summarized_articles' = [summarized_articles EXCEPT ![p] = EmptyDict]

\* An exception raised inside the try block (lines 206-211): write_html() is
\* evaluated there, so whatever it raises is caught, logged as a warning, and
\* the handler goes on to line 213.
AfterCaughtBad(p) == "failed"
AfterCaught(p) == "index_get"

Caught(p, what) ==
    /\ caught' = [caught EXCEPT ![p] = what]
    /\ pc' = [pc EXCEPT ![p] = AfterCaught(p)]
    /\ error' = [error EXCEPT ![p] = IF AfterCaught(p) = "failed" THEN what ELSE error[p]]
    /\ article_html' = [article_html EXCEPT ![p] = <<>>]
    /\ DropLocals(p)

\* The config dict after the loop of lines 201-205 over an event with keys ev.
ParseConfigBad(cfg, ev) == ev \cap configVars
ParseConfig(cfg, ev) == cfg \cup (ev \cap configVars)

\* lambda_handler, lines 178-205: a new invocation starts on process p.
Invoke(p) ==
    /\ pc[p] \in {"idle", "done", "failed"}
    /\ runsLeft[p] > 0
    /\ runsLeft' = [runsLeft EXCEPT ![p] = @ - 1]
    /\ \E ev \in SUBSET EventKeys :
        /\ event' = [event EXCEPT ![p] = ev]
        /\ IF "S3_BUCKET_NAME" \notin ev
           THEN \* bucket_name = event["S3_BUCKET_NAME"] raises KeyError
                /\ pc' = [pc EXCEPT ![p] = "failed"]
                /\ error' = [error EXCEPT ![p] = "KeyError: S3_BUCKET_NAME"]
                /\ warned' = [warned EXCEPT ![p] = {}]
                /\ UNCHANGED config
           ELSE /\ pc' = [pc EXCEPT ![p] = "topics"]
                /\ error' = [error EXCEPT ![p] = "none"]
                /\ warned' = [warned EXCEPT ![p] = configVars \ ev]
                /\ config' = [config EXCEPT ![p] = ParseConfig(@, ev)]
    /\ caught' = [caught EXCEPT ![p] = "none"]
    /\ article_html' = [article_html EXCEPT ![p] = <<>>]
    /\ content' = [content EXCEPT ![p] = <<>>]
    /\ modified' = [modified EXCEPT ![p] = <<>>]
    /\ DropLocals(p)
    /\ UNCHANGED << ARTICLE_LIMIT, index0, repo, s3_html, s3_index, DATE >>

\* for topic in topics: articles = news_by_topic(topic), lines 27-39.
NewsByTopic(p) ==
    /\ pc[p] = "topics"
    /\ topic[p] <= Len(topics)
    /\ IF {"WEAVIATE_URL", "WEAVIATE_API_KEY"} \subseteq config[p]
       THEN /\ results' = [results EXCEPT ![p] = <<>>]
            /\ offset' = [offset EXCEPT ![p] = 0]
            /\ REQ_LIMIT' = [REQ_LIMIT EXCEPT ![p] = ReqLimit(ARTICLE_LIMIT)]
            /\ pc' = [pc EXCEPT ![p] = "query"]
            /\ UNCHANGED << caught, error, topic, articles, art, summarized_articles,
                            article_html >>
       ELSE Caught(p, "KeyError: config")
    /\ UNCHANGED << ARTICLE_LIMIT, index0, repo, s3_html, s3_index, runsLeft, DATE, config,
                    event, warned, content, modified >>

\* One iteration of the while loop of news_by_topic, lines 54-73.
Query(p) ==
    /\ pc[p] = "query"
    /\ \/ Caught(p, "repository")
       \/ LET result == Page(repo[topic[p]], offset[p], REQ_LIMIT[p])
              all    == results[p] \o result
          IN  /\ IF Break(result, all, REQ_LIMIT[p], ARTICLE_LIMIT)
                 THEN /\ articles' = [articles EXCEPT ![p] = all]
                      /\ art' = [art EXCEPT ![p] = 1]
                      /\ results' = [results EXCEPT ![p] = <<>>]
                      /\ offset' = [offset EXCEPT ![p] = 0]
                      /\ pc' = [pc EXCEPT ![p] = "articles"]
                 ELSE /\ results' = [results EXCEPT ![p] = all]
                      /\ offset' = [offset EXCEPT ![p] = NextOffset(@, REQ_LIMIT[p])]
                      /\ UNCHANGED << articles, art, pc >>
              /\ UNCHANGED << caught, error, topic, REQ_LIMIT, summarized_articles,
                              article_html >>
    /\ UNCHANGED << ARTICLE_LIMIT, index0, repo, s3_html, s3_index, runsLeft, DATE, config,
                    event, warned, content, modified >>

\* One iteration of for article in articles, lines 105-116, or the end of it.
ArticleStep(p) ==
    /\ pc[p] = "articles"
    /\ LET t == topics[topic[p]]
           d == DefaultGet(summarized_articles[p], t)
       IN  IF art[p] > Len(articles[p])
           THEN /\ topic' = [topic EXCEPT ![p] = @ + 1]
                /\ articles' = [articles EXCEPT ![p] = <<>>]
                /\ art' = [art EXCEPT ![p] = 1]
                /\ pc' = [pc EXCEPT ![p] = "topics"]
                /\ UNCHANGED << caught, error, REQ_LIMIT, offset, results,
                                summarized_articles, article_html >>
           ELSE LET a == articles[p][art[p]] IN
                IF HasNoText(a)
                THEN /\ art' = [art EXCEPT ![p] = @ + 1]
                     /\ UNCHANGED << caught, error, pc, topic, REQ_LIMIT, offset, results,
                                     articles, summarized_articles, article_html >>
                ELSE IF AlreadyIn(a.title, d)
                THEN /\ art' = [art EXCEPT ![p] = @ + 1]
                     /\ summarized_articles' =
                            [summarized_articles EXCEPT ![p] = DefaultPut(@, t, d)]
                     /\ UNCHANGED << caught, error, pc, topic, REQ_LIMIT, offset, results,
                                     articles, article_html >>
                ELSE IF "OPENAI_API_KEY" \notin config[p]
                THEN Caught(p, "KeyError: config")
                ELSE \/ Caught(p, "completion")
                     \/ LET s == [a EXCEPT !.text = summarize_article(a.text)]
                        IN  /\ articles' = [articles EXCEPT ![p][art[p]] = s]
                            /\ summarized_articles' =
                                   [summarized_articles EXCEPT
                                       ![p] = DefaultPut(@, t, DictSet(d, s))]
                            /\ art' = [art EXCEPT ![p] = @ + 1]
                            /\ UNCHANGED << caught, error, pc, topic, REQ_LIMIT, offset,
                                            results, article_html >>
    /\ UNCHANGED << ARTICLE_LIMIT, index0, repo, s3_html, s3_index, runsLeft, DATE, config,
                    event, warned, content, modified >>

\* Reading summarized_articles[topic] for every topic, as write_html does.
RECURSIVE TouchAll(_, _)
TouchAll(sa, i) ==
    IF i > Len(topics) THEN sa
    ELSE TouchAll(DefaultPut(sa, topics[i], DefaultGet(sa, topics[i])), i + 1)

\* write_html after get_summarized_articles returned, lines 153-174.
WriteHtml(p) ==
    /\ pc[p] = "topics"
    /\ topic[p] > Len(topics)
    /\ article_html' = [article_html EXCEPT ![p] = RenderHtml(summarized_articles[p], DATE[p])]
    /\ summarized_articles' = [summarized_articles EXCEPT ![p] = TouchAll(@, 1)]
    /\ pc' = [pc EXCEPT ![p] = "put_html"]
    /\ UNCHANGED << ARTICLE_LIMIT, index0, repo, s3_html, s3_index, runsLeft, DATE, config,
                    event, warned, caught, error, topic, REQ_LIMIT, offset, results,
                    articles, art, content, modified >>

\* s3.put_object(Body=write_html(), ...), lines 206-211.
PutHtml(p) ==
    /\ pc[p] = "put_html"
    /\ \/ /\ s3_html' = [d \in (DOMAIN s3_html) \cup {DATE[p]} |->
                            IF d = DATE[p] THEN article_html[p] ELSE s3_html[d]]
          /\ pc' = [pc EXCEPT ![p] = "index_get"]
          /\ article_html' = [article_html EXCEPT ![p] = <<>>]
          /\ DropLocals(p)
          /\ UNCHANGED << caught, error >>
       \/ /\ Caught(p, "put_object")
          /\ UNCHANGED s3_html
    /\ UNCHANGED << ARTICLE_LIMIT, index0, repo, s3_index, runsLeft, DATE, config, event,
                    warned, content, modified >>

\* Lines 213-220: read articles.json, parse it, insert DATE if it is absent.
IndexGet(p) ==
    /\ pc[p] = "index_get"
    /\ \/ /\ s3_index.exists
          /\ content' = [content EXCEPT ![p] = s3_index.body]
          /\ modified' = [modified EXCEPT ![p] = IndexUpdate(s3_index.body, DATE[p])]
          /\ pc' = [pc EXCEPT ![p] = "index_put"]
          /\ UNCHANGED error
       \/ /\ pc' = [pc EXCEPT ![p] = "failed"]
          /\ error' = [error EXCEPT ![p] = "get_object"]
          /\ UNCHANGED << content, modified >>
    /\ UNCHANGED << ARTICLE_LIMIT, index0, repo, s3_html, s3_index, runsLeft, DATE, config,
                    event, warned, caught, topic, REQ_LIMIT, offset, results,
                    articles, art, summarized_articles, article_html >>

\* Lines 222-224: write articles.json back.
IndexPut(p) ==
    /\ pc[p] = "index_put"
    /\ \/ /\ s3_index' = Object(modified[p])
          /\ pc' = [pc EXCEPT ![p] = "done"]
          /\ UNCHANGED error
       \/ /\ pc' = [pc EXCEPT ![p] = "failed"]
          /\ error' = [error EXCEPT ![p] = "put_object"]
          /\ UNCHANGED s3_index
    /\ UNCHANGED << ARTICLE_LIMIT, index0, repo, s3_html, runsLeft, DATE, config, event,
                    warned, caught, topic, REQ_LIMIT, offset, results, articles, art,
                    summarized_articles, article_html, content, modified >>

Next ==
    \E p \in Procs :
        \/ Invoke(p)
        \/ NewsByTopic(p)
        \/ Query(p)
        \/ ArticleStep(p)
        \/ WriteHtml(p)
        \/ PutHtml(p)
        \/ IndexGet(p)
        \/ IndexPut(p)

Spec == Init /\ [][Next]_vars

SpecDigest == InitDigest /\ [][Next]_vars

SpecRace == InitRace /\ [][Next]_vars

\* news_by_topic runs to its return and no further.
NextFetch == \E p \in Procs : NewsByTopic(p) \/ Query(p)

SpecFetch == InitFetch /\ [][NextFetch]_vars

\* The loop of news_by_topic keeps running: nothing in it waits.
FairSpecFetch == SpecFetch /\ WF_vars(NextFetch)

\* ================================================================= claims
Elems(q) == { q[i] : i \in 1..Len(q) }
Count(q, x) == Cardinality({ i \in 1..Len(q) : q[i] = x })
NoDuplicates(q) == \A i, j \in 1..Len(q) : q[i] = q[j] => i = j

\* The article of a list that a stored record came from, by its url.
Source(list, e) == CHOOSE j \in 1..Len(list) : list[j].url = e.url
WithText(a) == a.text \notin {NoText, ""}

\* How many of the articles fetched for topics[i] process p has been through.
Seen(p, i) ==
    IF pc[p] = "put_html" \/ (pc[p] \in {"topics", "query", "articles"} /\ i < topic[p])
    THEN Min(Len(repo[i]), ARTICLE_LIMIT)
    ELSE IF pc[p] = "articles" /\ i = topic[p] THEN art[p] - 1
    ELSE 0

\* The digest of process p for topics[i].
Digest(p, i) == DefaultGet(summarized_articles[p], topics[i])

\* C1: news_by_topic returns at most ARTICLE_LIMIT records, for every
\* ARTICLE_LIMIT and every number of matching upstream articles.
C1_AtMostLimit ==
    \A p \in Procs : pc[p] = "articles" => Len(articles[p]) <= ARTICLE_LIMIT

\* C2: the index update is idempotent in the run date: a successful update
\* leaves articles.json unchanged when it holds the date, puts the date at
\* position 0 when it does not, and the array never holds a date twice; after
\* a successful run it holds the run date exactly once.
C2_Step ==
    \A p \in Procs :
        (pc[p] = "index_put" /\ pc'[p] = "done") =>
            /\ s3_index'.exists
            /\ IF DATE[p] \in Elems(s3_index.body)
               THEN s3_index'.body = s3_index.body
               ELSE s3_index'.body = <<DATE[p]>> \o s3_index.body
C2_State ==
    /\ NoDuplicates(s3_index.body)
    /\ pc["c1"] = "done" => Count(s3_index.body, DATE["c1"]) = 1
C2_IndexUpdateIdempotent == [](C2_State) /\ [][C2_Step]_vars

\* The second invocation finished its update on an index that the first one
\* had put the date into.
C2_Witness ==
    /\ pc["c1"] = "done" /\ runsLeft["c1"] = 0
    /\ DATE["c1"] \notin Elems(index0.body)
    /\ DATE["c1"] \in Elems(content["c1"])
    /\ Len(index0.body) = 1
    /\ s3_index.body = <<DATE["c1"]>> \o index0.body

\* C3 as written: of the fetched records with one title the digest keeps the
\* first in fetch order.
C3_KeepsFirstFetched ==
    \A p \in Procs : \A i \in TopicIdx :
        \A k \in 1..Len(Digest(p, i)) :
            LET j == Source(repo[i], Digest(p, i)[k])
            IN  \A h \in 1..(j - 1) : repo[i][h].title # repo[i][j].title

\* C3 as amended: of the fetched records with one title the digest keeps the
\* first that has a text; the later ones are not summarized and do not
\* replace it, and titles within a topic are unique.
Kept(list, n) ==
    { j \in 1..n : /\ WithText(list[j])
                   /\ \A h \in 1..(j - 1) :
                        ~(list[h].title = list[j].title /\ WithText(list[h])) }
C3_KeepsFirstWithText ==
    \A p \in Procs : \A i \in TopicIdx :
        LET d == Digest(p, i) IN
        /\ { d[k].url : k \in 1..Len(d) } = { repo[i][j].url : j \in Kept(repo[i], Seen(p, i)) }
        /\ Cardinality({ d[k].title : k \in 1..Len(d) }) = Len(d)
        /\ \A k \in 1..Len(d) :
              /\ d[k].title = repo[i][Source(repo[i], d[k])].title
              /\ d[k].text = summarize_article(repo[i][Source(repo[i], d[k])].text)
        /\ (pc[p] = "articles" /\ i = topic[p]) =>
              \A j \in 1..Len(articles[p]) :
                  articles[p][j].text =
                      IF j \in Kept(repo[i], Seen(p, i))
                      THEN summarize_article(repo[i][j].text) ELSE repo[i][j].text

\* A topic with two texted articles of one title, both gone through: only the
\* first is in the digest.
C3_Witness ==
    \E p \in Procs : \E i \in TopicIdx :
        /\ pc[p] = "articles" /\ topic[p] = i /\ art[p] = 3
        /\ Len(repo[i]) = 2
        /\ repo[i][1].title = repo[i][2].title
        /\ WithText(repo[i][1]) /\ WithText(repo[i][2])
        /\ Len(Digest(p, i)) = 1 /\ Digest(p, i)[1].url = repo[i][1].url

\* C4: no article whose text is missing or empty is summarized or is in the
\* digest.
C4_NoEmptyText ==
    \A p \in Procs : \A i \in TopicIdx :
        /\ \A k \in 1..Len(Digest(p, i)) :
              repo[i][Source(repo[i], Digest(p, i)[k])].text \notin {NoText, ""}
        /\ (pc[p] = "articles" /\ i = topic[p]) =>
              \A j \in 1..Len(articles[p]) :
                  repo[i][j].text \in {NoText, ""} => articles[p][j] = repo[i][j]

\* A topic with an empty-text article and a texted one, both gone through.
C4_Witness ==
    \E p \in Procs : \E i \in TopicIdx :
        /\ pc[p] = "articles" /\ topic[p] = i /\ art[p] = 3
        /\ Len(repo[i]) = 2
        /\ repo[i][1].text = "" /\ repo[i][2].text = "body"
        /\ Len(Digest(p, i)) = 1 /\ Digest(p, i)[1].url = repo[i][2].url

\* C5: an error of the repository query or of the completion backend ends
\* the invocation: the index update is not reached.
C5_UpstreamErrorFatal ==
    \A p \in Procs :
        caught[p] \in {"repository", "completion"} =>
            pc[p] \notin {"index_get", "index_put", "done"}

\* C6: a failed put of the HTML object does not end the invocation: it is
\* logged and the handler goes on to the index update.
C6_Step ==
    \A p \in Procs :
        (pc[p] = "put_html" /\ pc'[p] # "put_html") =>
            /\ pc'[p] = "index_get"
            /\ error'[p] = "none"
            /\ \/ caught'[p] = "put_object" /\ s3_html' = s3_html
               \/ /\ caught'[p] = caught[p]
                  /\ DATE[p] \in DOMAIN s3_html'
                  /\ s3_html'[DATE[p]] = article_html[p]
C6_HtmlFailureNotFatal == [][C6_Step]_vars

\* The run date is in the index and no HTML object exists for it.
C6_Witness ==
    \E p \in Procs :
        /\ pc[p] = "done" /\ caught[p] = "put_object"
        /\ DATE[p] \notin Elems(index0.body)
        /\ DATE[p] \in Elems(s3_index.body)
        /\ DATE[p] \notin DOMAIN s3_html

\* C7 as written: an event that lacks one of the four keys does not fail at
\* parsing; the key is reported and absent from config.
C7_MissingKeyDeferred ==
    \A p \in Procs : pc[p] # "idle" =>
        \A k \in EventKeys \ event[p] :
            /\ error[p] # "KeyError: S3_BUCKET_NAME"
            /\ k \in configVars => (k \in warned[p] /\ k \notin config[p])

\* C7 as amended: an event that lacks one of the three configVars does not
\* fail at parsing; the key is reported and its config entry is left as the
\* process had it.  An event without S3_BUCKET_NAME fails before parsing.
C7_Step ==
    \A p \in Procs :
        runsLeft'[p] < runsLeft[p] =>
            IF "S3_BUCKET_NAME" \in event'[p]
            THEN /\ pc'[p] = "topics" /\ error'[p] = "none"
                 /\ warned'[p] = configVars \ event'[p]
                 /\ \A k \in configVars :
                      (k \in config'[p]) = (k \in event'[p] \/ k \in config[p])
            ELSE /\ pc'[p] = "failed" /\ error'[p] = "KeyError: S3_BUCKET_NAME"
                 /\ config'[p] = config[p]
C7_ConfigVarsDeferred == [][C7_Step]_vars

\* An invocation whose event lacks a key that an earlier one had set.
C7_Witness ==
    \E p \in Procs : \E k \in configVars :
        /\ pc[p] = "topics" /\ "S3_BUCKET_NAME" \in event[p]
        /\ k \notin event[p] /\ k \in warned[p] /\ k \in config[p]

\* C8: a topic without articles has an empty mapping in the digest and its
\* heading, rule and nothing else at its place among the six sections.
IsH1(e) == e.tag = "h1"
IsH3(e) == e.tag = "h3"
EmptySection(html, k, t) ==
    /\ k + 2 <= Len(html)
    /\ html[k] = El("h1", <<Capitalize(t)>>)
    /\ html[k + 1] = El("hr", <<>>)
    /\ html[k + 2] = El("nl", <<>>)
C8_EmptyTopicSection ==
    \A p \in Procs : pc[p] = "put_html" =>
        LET html == article_html[p] IN
        /\ SelectSeq(html, IsH1) =
              << El("h1", <<" Summary for News Articles: ", DATE[p], " ">>) >>
              \o [i \in TopicIdx |-> El("h1", <<Capitalize(topics[i])>>)]
        /\ \A i \in TopicIdx : repo[i] = <<>> =>
              /\ topics[i] \in DOMAIN summarized_articles[p]
              /\ summarized_articles[p][topics[i]] = <<>>
              /\ \E k \in 1..Len(html) : EmptySection(html, k, topics[i])
        /\ (\A i \in TopicIdx : repo[i] = <<>>) =>
              /\ SelectSeq(html, IsH3) = <<>>
              /\ \A i \in TopicIdx : EmptySection(html, 3 + 3 * i, topics[i])
              /\ Len(html) = 6 + 3 * Len(topics)

\* A rendered digest with an empty topic after a topic that has an article.
C8_Witness ==
    \E p \in Procs :
        /\ pc[p] = "put_html"
        /\ \E i \in TopicIdx : repo[i] = <<>> /\ i > 1 /\ Len(Digest(p, i - 1)) > 0

\* C9 as written, on the interleaving it is about: two invocations for one
\* date that both read articles.json before either wrote it leave an array
\* other than the one two runs in a row leave.
SameDate == DATE["c1"] = DATE["c2"]
BothDone == pc["c1"] = "done" /\ pc["c2"] = "done"
Inserted(arts, date) == IF date \in Elems(arts) THEN arts ELSE <<date>> \o arts
Raced ==
    /\ BothDone /\ SameDate
    /\ DATE["c1"] \notin Elems(index0.body)
    /\ content["c1"] = index0.body /\ content["c2"] = index0.body
C9_LostUpdateSameDate ==
    Raced => s3_index.body # Inserted(Inserted(index0.body, DATE["c1"]), DATE["c2"])

\* C9 as amended: for one run date every interleaving leaves the array that
\* two runs in a row leave; for two dates it leaves that array or one that
\* lacks the date of the invocation whose write was overwritten.
C9_SameDateNoLostUpdate ==
    BothDone =>
        IF SameDate
        THEN s3_index.body = Inserted(index0.body, DATE["c1"])
        ELSE s3_index.body \in
                { Inserted(Inserted(index0.body, DATE["c1"]), DATE["c2"]),
                  Inserted(Inserted(index0.body, DATE["c2"]), DATE["c1"]),
                  Inserted(index0.body, DATE["c1"]),
                  Inserted(index0.body, DATE["c2"]) }

C9_Witness == Raced

\* C10: the loop of news_by_topic terminates; every request is made at the
\* offset that equals the number of rows accumulated, and an iteration that
\* does not end the loop adds a full page and stays under ARTICLE_LIMIT.
C10_State ==
    \A p \in Procs : pc[p] = "query" =>
        /\ offset[p] = Len(results[p])
        /\ REQ_LIMIT[p] = Min(ARTICLE_LIMIT, PAGE_SIZE)
C10_Step ==
    \A p \in Procs : (pc[p] = "query" /\ pc'[p] = "query") =>
        /\ REQ_LIMIT[p] > 0
        /\ Len(results'[p]) = Len(results[p]) + REQ_LIMIT[p]
        /\ Len(results'[p]) < ARTICLE_LIMIT
C10_Terminates ==
    /\ [](C10_State)
    /\ [][C10_Step]_vars
    /\ \A p \in Procs : (pc[p] = "query") ~> (pc[p] # "query")

\* A second request, made of an upstream that has another full page.
C10_Witness ==
    \E p \in Procs :
        /\ pc[p] = "query" /\ offset[p] = PAGE_SIZE
        /\ Len(repo[topic[p]]) >= offset[p] + REQ_LIMIT[p]

====
